---------------------------- MODULE Spec2Model ----------------------------
(***************************************************************************)
(* Model of the regions updater of pia-mutating-webhook.                   *)
(*                                                                         *)
(*  - Spec / LiveSpec: the daemon (src/unnamed/part_000): a pool of        *)
(*    workers, the event loop of main with its three timers and the stop   *)
(*    signal, the catalog fetch task and the persistence tasks.            *)
(*  - SpecOneShot: the one-shot variant (src/region/main.go): fetch once,  *)
(*    dispatch every region, collect the responses by count.               *)
(*  - SpecPersist: updateConfigMap (src/unnamed/part_000) against a        *)
(*    cluster whose object other clients change and delete.                *)
(*  - SpecStart: main from its first check to the event loop, for any      *)
(*    values of the flags.                                                 *)
(*  - SpecSort: lists sorted as each of the four comparators               *)
(*    (src/unnamed/part_001).                                              *)
(*  - SpecRun: run of the webhook (src/main.go) and the interrupts.        *)
(*  - SpecClone: one worker and one Region on a heap of objects with       *)
(*    addresses (src/region/types.go, work of src/unnamed/part_000).       *)
(*  - LiveSpecTimers, LiveSpecOneShot: the daemon and the one-shot         *)
(*    variant under a fair scheduler.                                      *)
(*                                                                         *)
(* A Go pointer is modelled as a sequence of length at most one: <<>> is   *)
(* nil and <<v>> points to v.  A panic ends the process: crashed = TRUE    *)
(* disables every action.                                                  *)
(***************************************************************************)
EXTENDS Integers, Sequences, FiniteSets, TLC

\* ------------------------------------------------------------------ bounds

\* opts.Workers: the number of workers started.
NumWorkers == 2

\* Capacity of the request and result channels (256 in the source), scaled
\* down so that a full channel is reached.
ChanCap == 2

\* opts.MaxLatency in model time units: a successful probe measures 1..MaxLat.
MaxLat == 1

\* ------------------------------------------------------------- data model

Nil == <<>>

Ptr(v) == <<v>>

IsNil(p) == p = <<>>

Deref(p) == p[1]

\* A Server as the catalog delivers it: no latency yet.
MkServer(ip, cn, van) == [IP |-> ip, CN |-> cn, VAN |-> van, Latency |-> Nil]

MkRegion(id, name, servers) == [ID |-> id, Name |-> name, Servers |-> servers]

MkServersList(wg) == Ptr([WireGuard |-> wg])

S1 == MkServer("10.0.0.1", "cn1", FALSE)

S2 == MkServer("10.0.0.2", "cn2", TRUE)

S3 == MkServer("10.0.0.3", "cn3", FALSE)

\* Region "A" with two WireGuard servers.
RegA == MkRegion("a", "A", MkServersList(<<S1, S2>>))

\* Region "B" with one WireGuard server.
RegB == MkRegion("b", "B", MkServersList(<<S3>>))

\* Region with a server group holding no WireGuard server.
RegE == MkRegion("e", "E", MkServersList(<<>>))

\* Region whose "servers" field is absent (nil *ServersList).
RegN == MkRegion("n", "N", Nil)

\* A second region with one WireGuard server.
RegC == MkRegion("c", "C", MkServersList(<<S3>>))

\* The catalogs the remote source may answer with ([]*Region).
Catalogs == { <<Ptr(RegB), Ptr(RegA)>>, <<Ptr(RegN), Ptr(RegE), Ptr(RegB)>> }

\* Server.Clone
CloneServer(s) ==
    [IP |-> s.IP, CN |-> s.CN, VAN |-> s.VAN,
     Latency |-> IF IsNil(s.Latency) THEN Nil ELSE Ptr(Deref(s.Latency))]

\* Region.Clone: only the WireGuard list is copied.
Clone(r) ==
    [ID |-> r.ID, Name |-> r.Name,
     Servers |-> Ptr([WireGuard |->
                        [k \in 1..Len(Deref(r.Servers).WireGuard) |->
                            CloneServer(Deref(r.Servers).WireGuard[k])]])]

\* len(reg.Servers.WireGuard) of a region whose Servers is not nil
WgLen(r) == Len(Deref(r.Servers).WireGuard)

\* Outcomes of net.DialTimeout: failure (timeout or other error), or a
\* connection established after a measured time.
ProbeOutcomes ==
    {[err |-> e, elapsed |-> 0] : e \in {"timeout", "other"}}
        \cup {[err |-> "none", elapsed |-> d] : d \in 1..MaxLat}

\* "if err != nil" after the dial
ProbeFailed(o) == o.err # "none"


\* The configuration the model runs with: the defaults of the order-by and
\* order-direction flags.
OrderBy == "name"

OrderDirection == "asc"

\* The max-regions flag (opts.MaxServers) the model runs with; 0 is "no limit".
MaxServers == 1

\* Go's "<" on the region names of the model (single letters).
StringLess(a, b) ==
    LET rank == [n \in {"A", "B", "E", "N"} |->
                    CASE n = "A" -> 1 [] n = "B" -> 2 [] n = "E" -> 3 [] n = "N" -> 4]
    IN rank[a] < rank[b]

\* ------------------------------------------------------- state: the daemon

VARIABLES
    mainpc,           \* main: "loop", "closeRes", "closeReq", "cancel", "wait", "exited"
    stop,             \* the stop channel (capacity 1) holds a signal
    updateTicker,     \* [running, C]: the ticker runs; a tick waits in its channel
    confWriterTimer,  \* "armed", "fired" (value in .C), "drained", "stopped"
    firstTime,        \* "armed", "fired", "drained"
    reqChan,          \* buffered request channel: sequence of *Region
    resChan,          \* buffered result channel: sequence of *Region
    reqClosed,        \* close(reqChan) was executed
    resClosed,        \* close(resChan) was executed
    cancelled,        \* canc() was executed: ctx is done
    wg,               \* the WaitGroup counter
    latResults,       \* the in-memory snapshot ([]*Region)
    workers,          \* per worker: its place in work() and its locals
    fetchTasks,       \* the goroutines started for a catalog fetch, in start order
    persistTasks,     \* the goroutines started for a configmap write, in start order
    panic             \* "none", or the channel a goroutine panicked on: the process is gone

daemonVars == <<mainpc, stop, updateTicker, confWriterTimer, firstTime, reqChan,
                resChan, reqClosed, resClosed, cancelled, wg, latResults, workers,
                fetchTasks, persistTasks, panic>>

\* The process died of a panic.
crashed == panic # "none"

Workers == 1..NumWorkers

\* A worker blocked at "for reg := range reqChan".
IdleWorker == [pc |-> "recv", reg |-> Nil, i |-> 0, ips |-> <<>>, probed |-> <<>>, out |-> Nil]

DaemonInit ==
    /\ mainpc = "loop"
    /\ stop = FALSE
    /\ updateTicker = [running |-> TRUE, C |-> FALSE]
    /\ confWriterTimer = "armed"
    /\ firstTime = "armed"
    /\ reqChan = <<>>
    /\ resChan = <<>>
    /\ reqClosed = FALSE
    /\ resClosed = FALSE
    /\ cancelled = FALSE
    /\ wg = NumWorkers
    /\ latResults = <<>>
    /\ workers = [w \in Workers |-> IdleWorker]
    /\ fetchTasks = <<>>
    /\ persistTasks = <<>>
    /\ panic = "none"

\* ------------------------------------------- state: the one-shot variant

VARIABLES
    osPc,          \* main: "fetch", "dispatch", "collect", "done", "fatal", "interrupted"
    osRegions,     \* regions: the fetched list
    osNext,        \* index of the next region the dispatch loop sends
    regionsChan,   \* buffered channel of regions to probe
    latencies,     \* buffered channel of responses
    responses,     \* number of responses the collection loop received
    results,       \* the regions the collection loop kept
    osWorkers,     \* per worker: its place in the worker loop and its locals
    osSent,        \* observation: messages sent on latencies, per region ID
    osProcessed,   \* observation: IDs of the regions a worker is done with
    osReached      \* observation: IDs of the regions with a successful probe

oneShotVars == <<osPc, osRegions, osNext, regionsChan, latencies, responses,
                 results, osWorkers, osSent, osProcessed, osReached>>

\* ------------------------------------------- state: updateConfigMap

VARIABLES
    cmStored,      \* the ConfigMap "pia-regions" in the cluster: Nil (absent) or Ptr(object)
    now,           \* time.Now(), a counter
    pPc,           \* updateConfigMap: "idle", "get", "set", "write", "returned", "panicked"
    pRegions,      \* its argument regions
    pExists,       \* its local exists
    pConfMap,      \* its local confMap: Nil or Ptr(object)
    pErr,          \* the error it returned: "nil" or the name of the error
    pGot,          \* observation: what Get answered: "none", "found", "notfound", "error"
    pWrites,       \* observation: Create and Update requests issued by this invocation
    pKind,         \* observation: the request issued: "none", "create", "update"
    pHist,         \* observation: argument, payload and time stamp of the successful writes
    pCalls,        \* invocations so far
    pStart         \* observation: the time at which this invocation was called

persistVars == <<cmStored, now, pPc, pRegions, pExists, pConfMap, pErr, pGot,
                 pWrites, pKind, pHist, pCalls, pStart>>

\* ------------------------------------------------- state: the startup

VARIABLES
    stPc,          \* main before the event loop: the check or step it is at, "loop", "exited", "panicked"
    stOpts,        \* opts: the values of the flags
    stNamespace,   \* os.Getenv(namespaceEnv)
    stClientErr,   \* whether getKubernetesClientset returns an error
    stLevel,       \* the level of the logger
    stStarted,     \* worker goroutines started
    stTimers       \* whether the ticker and the two timers are armed

startVars == <<stPc, stOpts, stNamespace, stClientErr, stLevel, stStarted, stTimers>>

\* ---------------------------------------------- state: the comparators

VARIABLES
    sortIn,        \* the list to sort ([]*ServerLatency)
    sortOut        \* per comparator: Nil, or what sorting the list with it gave

sortVars == <<sortIn, sortOut>>

\* ------------------------------------------- state: the webhook's run

VARIABLES
    rPc,           \* run: "check", "spawn", "notify", "wait", "shutdown", "returned", "killed"
    rOpts,         \* its argument opts
    rCode,         \* the code it returned
    rLevel,        \* the level of its logger
    rListen,       \* the goroutine of app.Listen: "none", "spawned", "listening", "failed", "closed"
    rNotified,     \* signal.Notify(stop, os.Interrupt) was called
    rStop,         \* the signals held by the channel stop (capacity 1)
    rInterrupts,   \* interrupt signals the process was sent
    rReceived,     \* observation: run received from stop
    rShutdown      \* observation: the answer of app.Shutdown(): "none", "nil", "error"

\* ------------------------------------- state: a worker and the heap

VARIABLES
    heap,          \* the objects allocated so far; an address is an index, 0 is nil
    hReq,          \* the address of the Region the worker received
    hOld,          \* observation: the heap when the worker received the Region
    hPc,           \* the worker: "probe", "clone", "assign", "sent", "skipped"
    hI,            \* index of the next server to probe
    hIps,          \* its local ips: addresses of Servers
    hReg           \* its local reg after "reg := reg.Clone()": an address

\* The variables of the parts of the repository that are no part of the
\* daemon and of the one-shot variant.
extraVars == <<rPc, rOpts, rCode, rLevel, rListen, rNotified, rStop, rInterrupts,
               rReceived, rShutdown, heap, hReq, hOld, hPc, hI, hIps, hReg>>

auxVars == <<persistVars, startVars, sortVars, extraVars>>

\* ------------------------------------------------------------ the workers

\* "if reg.Servers == nil { continue }; if len(reg.Servers.WireGuard) == 0 { continue }"
Skipped(r) == IsNil(r.Servers) \/ WgLen(r) = 0

\* ProbeStep without the "continue" of the error branch: the server is
\* appended whether or not the dial succeeded.
ProbeStepNoContinue(ips, serv, o) ==
    Append(ips, [IP |-> serv.IP, CN |-> serv.CN, VAN |-> serv.VAN,
                 Latency |-> IF o.err # "none" THEN Nil ELSE Ptr(o.elapsed)])

\* One iteration of the probe loop on server serv with outcome o: a failed
\* probe leaves ips alone, a success appends a new Server with the latency.
ProbeStep(ips, serv, o) ==
    IF ProbeFailed(o)
    THEN ips
    ELSE Append(ips, [IP |-> serv.IP, CN |-> serv.CN, VAN |-> serv.VAN, Latency |-> Ptr(o.elapsed)])

\* "reg := reg.Clone(); reg.Servers.WireGuard = ips"
BuildResult(r, ips) == [Clone(r) EXCEPT !.Servers = Ptr([WireGuard |-> ips])]

\* for reg := range reqChan: take the next region, or leave when the channel
\* is closed and drained.  A region without WireGuard servers is skipped.
workRecv(w) ==
    /\ ~crashed
    /\ workers[w].pc = "recv"
    /\ \/ /\ reqChan # <<>>
          /\ reqChan' = Tail(reqChan)
          /\ LET reg == Deref(Head(reqChan)) IN
             workers' = [workers EXCEPT ![w] =
                 IF Skipped(reg)
                 THEN IdleWorker
                 ELSE [IdleWorker EXCEPT !.pc = "probe", !.reg = Ptr(reg), !.i = 1]]
          /\ wg' = wg
       \/ /\ reqChan = <<>>
          /\ reqClosed
          /\ workers' = [workers EXCEPT ![w] = [IdleWorker EXCEPT !.pc = "done"]]
          /\ wg' = wg - 1
          /\ reqChan' = reqChan
    /\ UNCHANGED <<oneShotVars, auxVars, mainpc, stop, updateTicker, confWriterTimer, firstTime, resChan,
                   reqClosed, resClosed, cancelled, latResults, fetchTasks,
                   persistTasks, panic>>

\* One net.DialTimeout of the probe loop; after the last server the result
\* region is built.  The dial does not take ctx: it is not cancelled.
workProbe(w) ==
    /\ ~crashed
    /\ workers[w].pc = "probe"
    /\ \E o \in ProbeOutcomes :
         LET me   == workers[w]
             reg  == Deref(me.reg)
             serv == Deref(reg.Servers).WireGuard[me.i]
             ips  == ProbeStep(me.ips, serv, o)
             last == me.i = WgLen(reg)
         IN workers' = [workers EXCEPT ![w] =
                [me EXCEPT !.ips = ips,
                           !.probed = Append(me.probed, o),
                           !.i = me.i + 1,
                           !.pc = IF last THEN "send" ELSE "probe",
                           !.out = IF last THEN Ptr(BuildResult(reg, ips)) ELSE Nil]]
    /\ UNCHANGED <<oneShotVars, auxVars, mainpc, stop, updateTicker, confWriterTimer, firstTime, reqChan,
                   resChan, reqClosed, resClosed, cancelled, wg, latResults,
                   fetchTasks, persistTasks, panic>>

\* "latenciesResult <- reg": blocks while the channel is full, panics when
\* the channel is closed.
workSend(w) ==
    /\ ~crashed
    /\ workers[w].pc = "send"
    /\ \/ /\ resClosed
          /\ panic' = "resChan"
          /\ UNCHANGED <<resChan, workers>>
       \/ /\ ~resClosed
          /\ Len(resChan) < ChanCap
          /\ resChan' = Append(resChan, workers[w].out)
          /\ workers' = [workers EXCEPT ![w] = IdleWorker]
          /\ panic' = panic
    /\ UNCHANGED <<oneShotVars, auxVars, mainpc, stop, updateTicker, confWriterTimer, firstTime, reqChan,
                   reqClosed, resClosed, cancelled, wg, latResults, fetchTasks,
                   persistTasks>>

work(w) == workRecv(w) \/ workProbe(w) \/ workSend(w)


\* ------------------------------------------------------- the fetch tasks

FetchTasks == 1..Len(fetchTasks)

\* A goroutine started by "go func() { ... getServersList ... }()".
\* sent is an observation: the regions the goroutine has put on reqChan.
NewFetchTask == [pc |-> "fetching", regions |-> <<>>, i |-> 0, sent |-> <<>>]

\* A variant that ends the process on the error, as log.Fatal does.
fetchFailFatal(t) ==
    /\ ~crashed
    /\ fetchTasks[t].pc = "fetching"
    /\ fetchTasks' = [fetchTasks EXCEPT ![t].pc = "done"]
    /\ wg' = wg - 1
    /\ panic' = "fatal"
    /\ UNCHANGED <<oneShotVars, auxVars, mainpc, stop, updateTicker, confWriterTimer, firstTime, reqChan,
                   resChan, reqClosed, resClosed, cancelled, latResults, workers,
                   persistTasks>>

\* getServersList returns an error: "could not load regions, skipping...".
\* The goroutine returns, and its deferred wg.Done() runs.
fetchFail(t) ==
    /\ ~crashed
    /\ fetchTasks[t].pc = "fetching"
    /\ fetchTasks' = [fetchTasks EXCEPT ![t].pc = "done"]
    /\ wg' = wg - 1
    /\ UNCHANGED <<oneShotVars, auxVars, mainpc, stop, updateTicker, confWriterTimer, firstTime, reqChan,
                   resChan, reqClosed, resClosed, cancelled, latResults, workers,
                   persistTasks, panic>>

\* A variant whose loop over the regions starts at the second one.
fetchOkFromSecond(t) ==
    /\ ~crashed
    /\ fetchTasks[t].pc = "fetching"
    /\ ~cancelled
    /\ \E regions \in Catalogs :
         fetchTasks' = [fetchTasks EXCEPT ![t] =
             [fetchTasks[t] EXCEPT !.pc = "sending", !.regions = regions, !.i = 2]]
    /\ UNCHANGED <<oneShotVars, auxVars, mainpc, stop, updateTicker, confWriterTimer, firstTime, reqChan,
                   resChan, reqClosed, resClosed, cancelled, wg, latResults, workers,
                   persistTasks, panic>>

\* getServersList returns the catalog; a request whose context is already
\* cancelled does not succeed.  With no region to send the goroutine returns.
fetchOk(t) ==
    /\ ~crashed
    /\ fetchTasks[t].pc = "fetching"
    /\ ~cancelled
    /\ \E regions \in Catalogs :
         fetchTasks' = [fetchTasks EXCEPT ![t] =
             [fetchTasks[t] EXCEPT !.pc = "sending", !.regions = regions, !.i = 1]]
    /\ UNCHANGED <<oneShotVars, auxVars, mainpc, stop, updateTicker, confWriterTimer, firstTime, reqChan,
                   resChan, reqClosed, resClosed, cancelled, wg, latResults, workers,
                   persistTasks, panic>>

\* "reqChan <- region" of the loop over regions: blocks while the channel is
\* full, panics when the channel is closed.  After the last region the
\* goroutine returns.
fetchSend(t) ==
    /\ ~crashed
    /\ fetchTasks[t].pc = "sending"
    /\ LET me == fetchTasks[t] IN
       \/ /\ reqClosed
          /\ panic' = "reqChan"
          /\ UNCHANGED <<reqChan, fetchTasks, wg>>
       \/ /\ ~reqClosed
          /\ Len(reqChan) < ChanCap
          /\ reqChan' = Append(reqChan, me.regions[me.i])
          /\ IF me.i = Len(me.regions)
             THEN /\ fetchTasks' = [fetchTasks EXCEPT ![t] =
                                       [me EXCEPT !.pc = "done", !.i = me.i + 1,
                                                  !.sent = Append(@, me.regions[me.i])]]
                  /\ wg' = wg - 1
             ELSE /\ fetchTasks' = [fetchTasks EXCEPT ![t] =
                                       [me EXCEPT !.i = me.i + 1,
                                                  !.sent = Append(@, me.regions[me.i])]]
                  /\ wg' = wg
          /\ panic' = panic
    /\ UNCHANGED <<oneShotVars, auxVars, mainpc, stop, updateTicker, confWriterTimer, firstTime, resChan,
                   reqClosed, resClosed, cancelled, latResults, workers, persistTasks>>

fetchTask(t) == fetchFail(t) \/ fetchOk(t) \/ fetchSend(t)

\* ----------------------------------------------------- the persist tasks

PersistTasks == 1..Len(persistTasks)

\* A goroutine started by "go func() { ... updateConfigMap ... }()".
\* err is what updateConfigMap returned to it.
NewPersistTask == [pc |-> "start", regions |-> <<>>, err |-> "nil"]

\* The goroutine calls updateConfigMap(wrtCtx, clientset, namespace,
\* latResults): the snapshot variable is read when the call is made, not
\* when the goroutine is started.
persistCall(t) ==
    /\ ~crashed
    /\ persistTasks[t].pc = "start"
    /\ persistTasks' = [persistTasks EXCEPT ![t] =
                            [pc |-> "writing", regions |-> latResults, err |-> "nil"]]
    /\ UNCHANGED <<oneShotVars, auxVars, mainpc, stop, updateTicker, confWriterTimer, firstTime,
                   reqChan, resChan, reqClosed, resClosed, cancelled, wg, latResults,
                   workers, fetchTasks, panic>>

\* updateConfigMap returns nil or an error, which is only logged ("could not
\* update configmap, skipping..."); the goroutine returns and wg.Done() runs.
persistReturn(t) ==
    /\ ~crashed
    /\ persistTasks[t].pc = "writing"
    /\ \E err \in {"nil", "error"} :
         persistTasks' = [persistTasks EXCEPT ![t] =
                            [pc |-> "done", regions |-> <<>>, err |-> err]]
    /\ wg' = wg - 1
    /\ UNCHANGED <<oneShotVars, auxVars, mainpc, stop, updateTicker, confWriterTimer, firstTime,
                   reqChan, resChan, reqClosed, resClosed, cancelled, latResults,
                   workers, fetchTasks, panic>>

persistTask(t) == persistCall(t) \/ persistReturn(t)

\* --------------------------------------------------- the event loop (main)

\* "case <-updateTicker.C:" has an empty body: Go's select does not fall
\* through to the next case, so the tick is received and nothing is done.
caseUpdateTicker ==
    /\ ~crashed
    /\ mainpc = "loop"
    /\ updateTicker.C
    /\ updateTicker' = [updateTicker EXCEPT !.C = FALSE]
    /\ UNCHANGED <<oneShotVars, auxVars, mainpc, stop, confWriterTimer, firstTime, reqChan, resChan,
                   reqClosed, resClosed, cancelled, wg, latResults, workers,
                   fetchTasks, persistTasks, panic>>

\* "case <-firstTime.C:": wg.Add(1), start the fetch goroutine, and replace
\* confWriterTimer by a new timer.
caseFirstTime ==
    /\ ~crashed
    /\ mainpc = "loop"
    /\ firstTime = "fired"
    /\ firstTime' = "drained"
    /\ wg' = wg + 1
    /\ fetchTasks' = Append(fetchTasks, NewFetchTask)
    /\ confWriterTimer' = "armed"
    /\ UNCHANGED <<oneShotVars, auxVars, mainpc, stop, updateTicker, reqChan, resChan, reqClosed,
                   resClosed, cancelled, latResults, workers, persistTasks, panic>>

\* "case <-confWriterTimer.C:": wg.Add(1) and start the write goroutine.
caseConfWriterTimer ==
    /\ ~crashed
    /\ mainpc = "loop"
    /\ confWriterTimer = "fired"
    /\ confWriterTimer' = "drained"
    /\ wg' = wg + 1
    /\ persistTasks' = Append(persistTasks, NewPersistTask)
    /\ UNCHANGED <<oneShotVars, auxVars, mainpc, stop, updateTicker, firstTime, reqChan, resChan,
                   reqClosed, resClosed, cancelled, latResults, workers,
                   fetchTasks, panic>>

\* Aggregate without the test on the length of the server list.
AggregateNonNil(kept, lat) == IF ~IsNil(lat) THEN Append(kept, lat) ELSE kept

\* "if lat != nil && len(lat.Servers.WireGuard) > 0 { latResults = append(latResults, lat) }"
Aggregate(kept, lat) ==
    IF ~IsNil(lat) /\ WgLen(Deref(lat)) > 0
    THEN Append(kept, lat)
    ELSE kept

\* "case lat := <-resChan:"
caseResChan ==
    /\ ~crashed
    /\ mainpc = "loop"
    /\ resChan # <<>>
    /\ resChan' = Tail(resChan)
    /\ latResults' = Aggregate(latResults, Head(resChan))
    /\ UNCHANGED <<oneShotVars, auxVars, mainpc, stop, updateTicker, confWriterTimer, firstTime, reqChan,
                   reqClosed, resClosed, cancelled, wg, workers, fetchTasks,
                   persistTasks, panic>>

\* "case <-stop:": stopping = true, both timers are stopped (firstTime is
\* not), and the loop ends.  A value a timer already sent stays in its channel.
caseStop ==
    /\ ~crashed
    /\ mainpc = "loop"
    /\ stop
    /\ stop' = FALSE
    /\ updateTicker' = [updateTicker EXCEPT !.running = FALSE]
    /\ confWriterTimer' = IF confWriterTimer = "armed" THEN "stopped" ELSE confWriterTimer
    /\ mainpc' = "closeRes"
    /\ UNCHANGED <<oneShotVars, auxVars, firstTime, reqChan, resChan, reqClosed, resClosed, cancelled,
                   wg, latResults, workers, fetchTasks, persistTasks, panic>>

\* close(resChan)
mainCloseRes ==
    /\ ~crashed
    /\ mainpc = "closeRes"
    /\ resClosed' = TRUE
    /\ mainpc' = "closeReq"
    /\ UNCHANGED <<oneShotVars, auxVars, stop, updateTicker, confWriterTimer, firstTime, reqChan, resChan,
                   reqClosed, cancelled, wg, latResults, workers, fetchTasks,
                   persistTasks, panic>>

\* close(reqChan)
mainCloseReq ==
    /\ ~crashed
    /\ mainpc = "closeReq"
    /\ reqClosed' = TRUE
    /\ mainpc' = "cancel"
    /\ UNCHANGED <<oneShotVars, auxVars, stop, updateTicker, confWriterTimer, firstTime, reqChan, resChan,
                   resClosed, cancelled, wg, latResults, workers, fetchTasks,
                   persistTasks, panic>>

\* canc()
mainCanc ==
    /\ ~crashed
    /\ mainpc = "cancel"
    /\ cancelled' = TRUE
    /\ mainpc' = "wait"
    /\ UNCHANGED <<oneShotVars, auxVars, stop, updateTicker, confWriterTimer, firstTime, reqChan, resChan,
                   reqClosed, resClosed, wg, latResults, workers, fetchTasks,
                   persistTasks, panic>>

\* wg.Wait() returns when the counter is zero; then "goodbye!" and main returns.
mainWait ==
    /\ ~crashed
    /\ mainpc = "wait"
    /\ wg = 0
    /\ mainpc' = "exited"
    /\ UNCHANGED <<oneShotVars, auxVars, stop, updateTicker, confWriterTimer, firstTime, reqChan, resChan,
                   reqClosed, resClosed, cancelled, wg, latResults, workers,
                   fetchTasks, persistTasks, panic>>

main == \/ caseUpdateTicker
        \/ caseFirstTime
        \/ caseConfWriterTimer
        \/ caseResChan
        \/ caseStop
        \/ mainCloseRes
        \/ mainCloseReq
        \/ mainCanc
        \/ mainWait

\* ----------------------------------------------------- timers and signal
\* Once the loop has ended nothing receives from the timers or from stop, so
\* what they deliver later is left out.

\* The running ticker puts a tick in its channel (capacity 1; a tick that
\* finds the channel full is dropped).
tickUpdateTicker ==
    /\ ~crashed /\ mainpc = "loop"
    /\ updateTicker.running
    /\ ~updateTicker.C
    /\ updateTicker' = [updateTicker EXCEPT !.C = TRUE]
    /\ UNCHANGED <<oneShotVars, auxVars, mainpc, stop, confWriterTimer, firstTime, reqChan, resChan,
                   reqClosed, resClosed, cancelled, wg, latResults, workers,
                   fetchTasks, persistTasks, panic>>

\* The current confWriterTimer expires.
fireConfWriterTimer ==
    /\ ~crashed /\ mainpc = "loop"
    /\ confWriterTimer = "armed"
    /\ confWriterTimer' = "fired"
    /\ UNCHANGED <<oneShotVars, auxVars, mainpc, stop, updateTicker, firstTime, reqChan, resChan,
                   reqClosed, resClosed, cancelled, wg, latResults, workers,
                   fetchTasks, persistTasks, panic>>

\* The one-shot timer of the first iteration expires.
fireFirstTime ==
    /\ ~crashed /\ mainpc = "loop"
    /\ firstTime = "armed"
    /\ firstTime' = "fired"
    /\ UNCHANGED <<oneShotVars, auxVars, mainpc, stop, updateTicker, confWriterTimer, reqChan, resChan,
                   reqClosed, resClosed, cancelled, wg, latResults, workers,
                   fetchTasks, persistTasks, panic>>

\* os.Interrupt, SIGTERM or SIGABRT is delivered to the stop channel.
signalNotify ==
    /\ ~crashed /\ mainpc = "loop"
    /\ ~stop
    /\ stop' = TRUE
    /\ UNCHANGED <<oneShotVars, auxVars, mainpc, updateTicker, confWriterTimer, firstTime, reqChan,
                   resChan, reqClosed, resClosed, cancelled, wg, latResults,
                   workers, fetchTasks, persistTasks, panic>>

environment == tickUpdateTicker \/ fireConfWriterTimer \/ fireFirstTime \/ signalNotify

\* What the goroutines of the process do.
program ==
    \/ main
    \/ \E w \in Workers : work(w)
    \/ \E t \in FetchTasks : fetchTask(t)
    \/ \E t \in PersistTasks : persistTask(t)

DaemonNext == program \/ environment


\* ------------------------------------------------ the one-shot variant

RegionIDs == {"a", "b", "c", "e", "n"}

\* The lists the one-shot variant may fetch: the catalogs, the empty list,
\* and a list longer than both channels and the workers can hold.
OsCatalogs ==
    Catalogs \cup { <<>>, <<Ptr(RegA), Ptr(RegB), Ptr(RegE), Ptr(RegN), Ptr(RegC)>> }

\* A worker blocked at "for reg := range regionsChan".  pending is the
\* message of the send statement the worker stands at.
OsIdleWorker == [pc |-> "recv", reg |-> Nil, i |-> 0, ips |-> <<>>, pending |-> Nil]

OneShotInit ==
    /\ osPc = "fetch"
    /\ osRegions = <<>>
    /\ osNext = 1
    /\ regionsChan = <<>>
    /\ latencies = <<>>
    /\ responses = 0
    /\ results = <<>>
    /\ osWorkers = [w \in Workers |-> OsIdleWorker]
    /\ osSent = [id \in RegionIDs |-> 0]
    /\ osProcessed = {}
    /\ osReached = {}

\* The select on stop and on the answer of getServersList: the list, a
\* fatal error, or the interrupt.
osGetList ==
    /\ osPc = "fetch"
    /\ \/ \E list \in OsCatalogs :
            /\ osRegions' = list
            /\ osPc' = IF list = <<>> THEN "collect" ELSE "dispatch"
       \/ /\ osPc' \in {"fatal", "interrupted"}
          /\ osRegions' = osRegions
    /\ UNCHANGED <<daemonVars, auxVars, osNext, regionsChan, latencies, responses, results, osWorkers,
                   osSent, osProcessed, osReached>>

\* "for _, region := range regions { regionsChan <- region }"
osDispatch ==
    /\ osPc = "dispatch"
    /\ Len(regionsChan) < ChanCap
    /\ regionsChan' = Append(regionsChan, osRegions[osNext])
    /\ osNext' = osNext + 1
    /\ osPc' = IF osNext = Len(osRegions) THEN "collect" ELSE "dispatch"
    /\ UNCHANGED <<daemonVars, auxVars, osRegions, latencies, responses, results, osWorkers, osSent,
                   osProcessed, osReached>>

\* One iteration of "for lat := range latencies": keep the response if it
\* is a region with servers, count it, and stop at len(regions) responses.
\* Then canc() and main returns: the process ends.
osCollect ==
    /\ osPc = "collect"
    /\ latencies # <<>>
    /\ latencies' = Tail(latencies)
    /\ results' = Aggregate(results, Head(latencies))
    /\ responses' = responses + 1
    /\ osPc' = IF responses + 1 = Len(osRegions) THEN "done" ELSE "collect"
    /\ UNCHANGED <<daemonVars, auxVars, osRegions, osNext, regionsChan, osWorkers, osSent, osProcessed,
                   osReached>>

\* The workers run from their start, after the list is fetched, until main
\* returns.
OsRunning == osPc \in {"dispatch", "collect"}

\* for reg := range regionsChan: a region with no server group or no
\* WireGuard server is answered with "latencies <- nil".
osWorkerRecv(w) ==
    /\ OsRunning
    /\ osWorkers[w].pc = "recv"
    /\ regionsChan # <<>>
    /\ regionsChan' = Tail(regionsChan)
    /\ LET reg == Deref(Head(regionsChan)) IN
       osWorkers' = [osWorkers EXCEPT ![w] =
           IF Skipped(reg)
           THEN [OsIdleWorker EXCEPT !.pc = "sendSkip", !.reg = Ptr(reg)]
           ELSE [OsIdleWorker EXCEPT !.pc = "probe", !.reg = Ptr(reg), !.i = 1]]
    /\ UNCHANGED <<daemonVars, auxVars, osPc, osRegions, osNext, latencies, responses, results, osSent,
                   osProcessed, osReached>>

\* calculateLatency on the next server: on an error the worker goes to
\* "latencies <- nil" and then continues with the next server; on success
\* the server is appended to ips.
osWorkerProbe(w) ==
    /\ OsRunning
    /\ osWorkers[w].pc = "probe"
    /\ LET me  == osWorkers[w]
           reg == Deref(me.reg)
       IN IF me.i > WgLen(reg)
          THEN /\ osWorkers' = [osWorkers EXCEPT ![w] =
                       [me EXCEPT !.pc = "send", !.pending = Ptr(BuildResult(reg, me.ips))]]
               /\ osReached' = osReached
          ELSE \E o \in ProbeOutcomes :
               /\ osWorkers' = [osWorkers EXCEPT ![w] =
                       [me EXCEPT !.ips = ProbeStep(me.ips, Deref(reg.Servers).WireGuard[me.i], o),
                                  !.i = me.i + 1,
                                  !.pc = IF ProbeFailed(o) THEN "sendFailed" ELSE "probe"]]
               /\ osReached' = IF ProbeFailed(o) THEN osReached ELSE osReached \cup {reg.ID}
    /\ UNCHANGED <<daemonVars, auxVars, osPc, osRegions, osNext, regionsChan, latencies, responses,
                   results, osSent, osProcessed>>

\* The three send statements of the worker, each blocking while latencies is
\* full: nil for a skipped region (then the next region), nil for a failed
\* probe (then the next server), the result region (then the next region).
osWorkerSend(w) ==
    /\ OsRunning
    /\ osWorkers[w].pc \in {"sendSkip", "sendFailed", "send"}
    /\ Len(latencies) < ChanCap
    /\ LET me == osWorkers[w]
           id == Deref(me.reg).ID
       IN /\ latencies' = Append(latencies, me.pending)
          /\ osSent' = [osSent EXCEPT ![id] = @ + 1]
          /\ IF me.pc = "sendFailed"
             THEN /\ osWorkers' = [osWorkers EXCEPT ![w] = [me EXCEPT !.pc = "probe"]]
                  /\ osProcessed' = osProcessed
             ELSE /\ osWorkers' = [osWorkers EXCEPT ![w] = OsIdleWorker]
                  /\ osProcessed' = osProcessed \cup {id}
    /\ UNCHANGED <<daemonVars, auxVars, osPc, osRegions, osNext, regionsChan, responses, results, osReached>>

osWorker(w) == osWorkerRecv(w) \/ osWorkerProbe(w) \/ osWorkerSend(w)

OneShotNext ==
    \/ osGetList
    \/ osDispatch
    \/ osCollect
    \/ \E w \in Workers : osWorker(w)

\* ------------------------------------------------------ updateConfigMap

\* Invocations of updateConfigMap in one behaviour.
MaxCalls == 2

\* Readings of the clock.
MaxClock == 3

\* Resource versions of the stored object that other clients may produce.
MaxRV == 2

\* Keys of the BinaryData and of the Annotations of the stored object: the
\* two the code writes, and one of somebody else in each map.
PayloadKeys == {"regions", "other"}

AnnotationKeys == {"last-update", "owner"}

\* A Go map that is not nil, without entry.
EmptyMap(keys) == [k \in keys |-> Nil]

\* One scalar of a YAML document.
Tok(key, str, num) == [key |-> key, str |-> str, num |-> num]

\* yaml.Marshal of a *Server: latency, ip, cn, and van unless it is false.
MarshalServer(s) ==
    << IF IsNil(s.Latency) THEN Tok("latency", "null", 0)
                           ELSE Tok("latency", "", Deref(s.Latency)),
       Tok("ip", s.IP, 0),
       Tok("cn", s.CN, 0) >>
    \o (IF s.VAN THEN <<Tok("van", "true", 0)>> ELSE <<>>)

RECURSIVE MarshalServers(_)
\* yaml.Marshal of a []*Server
MarshalServers(list) ==
    IF list = <<>> THEN <<>>
    ELSE <<Tok("-", "", 0)>> \o MarshalServer(Head(list)) \o MarshalServers(Tail(list))

\* yaml.Marshal of a *Region: id, name, servers; wg is left out when empty.
MarshalRegion(r) ==
    <<Tok("id", r.ID, 0), Tok("name", r.Name, 0)>>
    \o (IF IsNil(r.Servers) THEN <<Tok("servers", "null", 0)>>
        ELSE <<Tok("servers", "", 0)>>
             \o (IF WgLen(r) = 0 THEN <<>>
                 ELSE <<Tok("wg", "", 0)>> \o MarshalServers(Deref(r.Servers).WireGuard)))

RECURSIVE Marshal(_)
\* yaml.Marshal(regions): the document of a []*Region.  It has no failing
\* input among the values of these types.
Marshal(regions) ==
    IF regions = <<>> THEN <<>>
    ELSE <<Tok("-", "", 0)>> \o MarshalRegion(Deref(Head(regions))) \o Marshal(Tail(regions))

\* time.Now().String()
TimeString(t) == [text |-> "time", at |-> t]

\* The new object of the not-found branch.
NewConfigMap ==
    [rv |-> 0, BinaryData |-> Ptr(EmptyMap(PayloadKeys)),
     Annotations |-> Ptr(EmptyMap(AnnotationKeys))]

\* "assignment to entry in nil map": what the two assignments do to an
\* object one of whose maps is nil.
NilMapPanic(cm) == IsNil(cm.BinaryData) \/ IsNil(cm.Annotations)

\* A variant that builds the two maps anew.
SetFieldsFresh(cm, data, t) ==
    [cm EXCEPT !.BinaryData = Ptr([EmptyMap(PayloadKeys) EXCEPT !["regions"] = Ptr(data)]),
               !.Annotations = Ptr([EmptyMap(AnnotationKeys) EXCEPT
                                       !["last-update"] = Ptr(TimeString(t))])]

\* A variant that writes the time into the payload as well.
SetFieldsStamped(cm, data, t) ==
    [cm EXCEPT !.BinaryData = Ptr([Deref(@) EXCEPT
                                     !["regions"] = Ptr(data \o <<Tok("at", "", t)>>)]),
               !.Annotations = Ptr([Deref(@) EXCEPT !["last-update"] = Ptr(TimeString(t))])]

\* confMap.BinaryData["regions"] = data
\* confMap.Annotations["last-update"] = time.Now().String()
SetFields(cm, data, t) ==
    [cm EXCEPT !.BinaryData = Ptr([Deref(@) EXCEPT !["regions"] = Ptr(data)]),
               !.Annotations = Ptr([Deref(@) EXCEPT !["last-update"] = Ptr(TimeString(t))])]

\* A variant that asks again after a conflict.
AfterWriteRetrying(err) == IF err = "conflict" THEN "get" ELSE "returned"

\* "return err" after Update or Create, whatever err is.
AfterWrite(err) == "returned"

\* Results the probes may have produced for regions A and B.
ResA == BuildResult(RegA, ProbeStep(<<>>, S1, [err |-> "none", elapsed |-> 1]))

ResB == BuildResult(RegB, ProbeStep(<<>>, S3, [err |-> "none", elapsed |-> 1]))

\* The snapshots updateConfigMap is called with.
PersistSnapshots == { <<>>, <<Ptr(ResA)>>, <<Ptr(ResB), Ptr(ResA)>> }

\* A payload and an annotation of another client.
ForeignPayload == <<Tok("raw", "x", 0)>>

ForeignAnnotation == [text |-> "team", at |-> 0]

\* The object another client made: its own key and annotation, or none
\* (Kubernetes decodes a map without entry as nil).
ForeignObjects ==
    { [rv |-> 1, BinaryData |-> bd, Annotations |-> an] :
        bd \in {Nil, Ptr([EmptyMap(PayloadKeys) EXCEPT !["other"] = Ptr(ForeignPayload)])},
        an \in {Nil, Ptr([EmptyMap(AnnotationKeys) EXCEPT !["owner"] = Ptr(ForeignAnnotation)])} }

\* No invocation yet, and no object.
PersistIdle ==
    /\ cmStored = Nil
    /\ now = 1
    /\ pPc = "idle"
    /\ pRegions = <<>>
    /\ pExists = TRUE
    /\ pConfMap = Nil
    /\ pErr = "nil"
    /\ pGot = "none"
    /\ pWrites = 0
    /\ pKind = "none"
    /\ pHist = <<>>
    /\ pCalls = 0
    /\ pStart = 1

\* No invocation yet; the cluster has no object, or one of another client.
PersistInit ==
    /\ cmStored \in {Nil} \cup {Ptr(o) : o \in ForeignObjects}
    /\ now = 1
    /\ pPc = "idle"
    /\ pRegions = <<>>
    /\ pExists = TRUE
    /\ pConfMap = Nil
    /\ pErr = "nil"
    /\ pGot = "none"
    /\ pWrites = 0
    /\ pKind = "none"
    /\ pHist = <<>>
    /\ pCalls = 0
    /\ pStart = 1

notPersist == <<daemonVars, oneShotVars, startVars, sortVars, extraVars>>

\* updateConfigMap(ctx, clientset, namespace, regions) is called.
pCall ==
    /\ pPc \in {"idle", "returned"}
    /\ pCalls < MaxCalls
    /\ \E regs \in PersistSnapshots : pRegions' = regs
    /\ pPc' = "get"
    /\ pExists' = TRUE
    /\ pConfMap' = Nil
    /\ pErr' = "nil"
    /\ pGot' = "none"
    /\ pWrites' = 0
    /\ pKind' = "none"
    /\ pCalls' = pCalls + 1
    /\ pStart' = now
    /\ UNCHANGED <<notPersist, cmStored, now, pHist>>

\* cfg.Get and the branch on its error.
pGet ==
    /\ pPc = "get"
    /\ \/ /\ ~IsNil(cmStored)
          /\ pConfMap' = cmStored
          /\ pGot' = "found"
          /\ pPc' = "set"
          /\ UNCHANGED <<pExists, pErr>>
       \/ /\ IsNil(cmStored)
          /\ pExists' = FALSE
          /\ pConfMap' = Ptr(NewConfigMap)
          /\ pGot' = "notfound"
          /\ pPc' = "set"
          /\ pErr' = pErr
       \/ /\ pErr' = "other"
          /\ pGot' = "error"
          /\ pPc' = "returned"
          /\ UNCHANGED <<pExists, pConfMap>>
    /\ UNCHANGED <<notPersist, cmStored, now, pRegions, pWrites, pKind, pHist, pCalls, pStart>>

\* yaml.Marshal and the two assignments.
pSet ==
    /\ pPc = "set"
    /\ \/ /\ NilMapPanic(Deref(pConfMap))
          /\ pPc' = "panicked"
          /\ pConfMap' = pConfMap
       \/ /\ ~NilMapPanic(Deref(pConfMap))
          /\ pConfMap' = Ptr(SetFields(Deref(pConfMap), Marshal(pRegions), now))
          /\ pPc' = "write"
    /\ UNCHANGED <<notPersist, cmStored, now, pRegions, pExists, pErr, pGot, pWrites, pKind,
                   pHist, pCalls, pStart>>

\* What the successful writes stored, the latest two.
Remember(hist, regs, obj) ==
    LET all == Append(hist, [regs    |-> regs,
                             payload |-> Deref(obj.BinaryData)["regions"],
                             stamp   |-> Deref(obj.Annotations)["last-update"]])
    IN IF Len(all) > 2 THEN Tail(all) ELSE all

\* cfg.Update or cfg.Create, once, and "return err".
pWrite ==
    /\ pPc = "write"
    /\ pWrites' = pWrites + 1
    /\ pKind' = IF pExists THEN "update" ELSE "create"
    /\ LET obj == Deref(pConfMap)
           ok  == /\ cmStored' = Ptr([obj EXCEPT !.rv = @ + 1])
                  /\ pErr' = "nil"
                  /\ pHist' = Remember(pHist, pRegions, obj)
                  /\ pPc' = AfterWrite("nil")
           fails(err) == /\ pErr' = err
                         /\ pPc' = AfterWrite(err)
                         /\ UNCHANGED <<cmStored, pHist>>
       IN IF pExists
          THEN \/ /\ ~IsNil(cmStored)
                  /\ Deref(cmStored).rv = obj.rv
                  /\ ok
               \/ /\ ~IsNil(cmStored)
                  /\ Deref(cmStored).rv # obj.rv
                  /\ fails("conflict")
               \/ /\ IsNil(cmStored)
                  /\ fails("notfound")
               \/ fails("other")
          ELSE \/ /\ IsNil(cmStored)
                  /\ ok
               \/ /\ ~IsNil(cmStored)
                  /\ fails("exists")
               \/ fails("other")
    /\ UNCHANGED <<notPersist, now, pRegions, pExists, pConfMap, pGot, pCalls, pStart>>

updateConfigMap == pCall \/ pGet \/ pSet \/ pWrite

\* Another client changes its annotation on the object.
cmForeignUpdate ==
    /\ ~IsNil(cmStored)
    /\ Deref(cmStored).rv < MaxRV
    /\ LET obj == Deref(cmStored)
           an  == IF IsNil(obj.Annotations) THEN EmptyMap(AnnotationKeys)
                  ELSE Deref(obj.Annotations)
       IN cmStored' = Ptr([obj EXCEPT !.rv = @ + 1,
                                      !.Annotations = Ptr([an EXCEPT !["owner"] =
                                                              Ptr(ForeignAnnotation)])])
    /\ UNCHANGED <<notPersist, now, pPc, pRegions, pExists, pConfMap, pErr, pGot, pWrites,
                   pKind, pHist, pCalls, pStart>>

\* Another client deletes the object.
cmForeignDelete ==
    /\ ~IsNil(cmStored)
    /\ cmStored' = Nil
    /\ UNCHANGED <<notPersist, now, pPc, pRegions, pExists, pConfMap, pErr, pGot, pWrites,
                   pKind, pHist, pCalls, pStart>>

\* Time passes.
clockTick ==
    /\ now < MaxClock
    /\ now' = now + 1
    /\ UNCHANGED <<notPersist, cmStored, pPc, pRegions, pExists, pConfMap, pErr, pGot,
                   pWrites, pKind, pHist, pCalls, pStart>>

PersistNext == updateConfigMap \/ cmForeignUpdate \/ cmForeignDelete \/ clockTick

\* ------------------------------------------------- the startup of main

\* The default of the workers flag.
defaultWorkersNumber == 5

\* Values of the flags: the defaults and others, valid or not.
OptionValues ==
    [ MaxLatency     : {0, 50},
      Workers        : {0, 2},
      MaxServers     : {0, 25},
      ServersListURL : {"https://list", "%zz"},
      OrderBy        : {"name", "NAME", "latency", "bogus"},
      OrderDirection : {"asc", "desc", "DESC", "up"},
      Verbosity      : {0 - 1, 0, 3, 4},
      Frequency      : {0, 60} ]

\* strings.EqualFold on the strings of the model.
EqualFold(a, b) ==
    LET lower == [x \in {"name", "NAME", "latency", "bogus", "asc", "desc", "DESC", "up"} |->
                    CASE x = "NAME" -> "name" [] x = "DESC" -> "desc" [] OTHER -> x]
    IN lower[a] = lower[b]

\* Whether url.Parse returns an error.
UrlParseFails(u) == u = "%zz"

\* logLevels: debug, info, error, fatal
LogLevels == <<"debug", "info", "error", "fatal">>

\* "opts.Verbosity < 0 || opts.Verbosity > len(logLevels)-1"
InvalidVerbosity(v) == v < 0 \/ v > Len(LogLevels) - 1

\* A variant that refuses negative durations only.
InvalidMaxLatencyNegative(d) == d < 0

\* "opts.MaxLatency == 0"
InvalidMaxLatency(d) == d = 0

\* Neither orderByName nor orderByLatency.
InvalidOrderBy(o) == ~EqualFold(o, "name") /\ ~EqualFold(o, "latency")

\* Neither ascendingOrder nor descendingOrder.
InvalidOrderDirection(o) == ~EqualFold(o, "asc") /\ ~EqualFold(o, "desc")

\* The process before main's first check, with any flags and environment.
StartInit ==
    /\ stPc = "namespace"
    /\ stOpts \in OptionValues
    /\ stNamespace \in {"", "vpn"}
    /\ stClientErr \in BOOLEAN
    /\ stLevel = "debug"
    /\ stStarted = 0
    /\ stTimers = FALSE

\* One process, with the defaults.
StartIdle ==
    /\ stPc = "namespace"
    /\ stOpts = [MaxLatency |-> 50, Workers |-> 2, MaxServers |-> 25,
                 ServersListURL |-> "https://list", OrderBy |-> OrderBy,
                 OrderDirection |-> OrderDirection, Verbosity |-> 0, Frequency |-> 60]
    /\ stNamespace = "vpn"
    /\ stClientErr = FALSE
    /\ stLevel = "debug"
    /\ stStarted = 0
    /\ stTimers = FALSE

notStart == <<daemonVars, oneShotVars, persistVars, sortVars, extraVars>>

\* A check of main: log.Fatal, which exits, when bad holds; on to next
\* otherwise.
Check(at, bad, next) ==
    /\ stPc = at
    /\ stPc' = IF bad THEN "exited" ELSE next
    /\ UNCHANGED <<notStart, stOpts, stNamespace, stClientErr, stStarted, stTimers>>

stNamespaceCheck == Check("namespace", stNamespace = "", "clientset") /\ stLevel' = stLevel

stClientset == Check("clientset", stClientErr, "verbosity") /\ stLevel' = stLevel

stVerbosity ==
    /\ Check("verbosity", InvalidVerbosity(stOpts.Verbosity), "maxLatency")
    /\ stLevel' = IF InvalidVerbosity(stOpts.Verbosity) THEN stLevel
                  ELSE LogLevels[stOpts.Verbosity + 1]

stMaxLatency ==
    Check("maxLatency", InvalidMaxLatency(stOpts.MaxLatency), "workers") /\ stLevel' = stLevel

\* "if opts.Workers == 0" logs that the default is used, at debug level;
\* opts.Workers is not assigned.
stWorkersFlag == Check("workers", FALSE, "maxServers") /\ stLevel' = stLevel

\* "if opts.MaxServers == 0" logs
stMaxServers == Check("maxServers", FALSE, "url") /\ stLevel' = stLevel

stUrl == Check("url", UrlParseFails(stOpts.ServersListURL), "orderBy") /\ stLevel' = stLevel

stOrderBy == Check("orderBy", InvalidOrderBy(stOpts.OrderBy), "orderDirection") /\ stLevel' = stLevel

stOrderDirection ==
    Check("orderDirection", InvalidOrderDirection(stOpts.OrderDirection), "startWorkers")
        /\ stLevel' = stLevel

\* "for i := 0; i < int(opts.Workers); i++ { wg.Add(1); go func ... }"
stStartWorkers ==
    /\ stPc = "startWorkers"
    /\ IF stStarted < stOpts.Workers
       THEN stStarted' = stStarted + 1 /\ stPc' = stPc
       ELSE stStarted' = stStarted /\ stPc' = "timers"
    /\ UNCHANGED <<notStart, stOpts, stNamespace, stClientErr, stLevel, stTimers>>

\* signal.Notify, time.NewTicker(opts.Frequency), which panics when the
\* interval is not positive, and the two timers; then the event loop.
stArmTimers ==
    /\ stPc = "timers"
    /\ IF stOpts.Frequency <= 0
       THEN stPc' = "panicked" /\ stTimers' = stTimers
       ELSE stPc' = "loop" /\ stTimers' = TRUE
    /\ UNCHANGED <<notStart, stOpts, stNamespace, stClientErr, stLevel, stStarted>>

StartNext ==
    \/ stNamespaceCheck
    \/ stClientset
    \/ stVerbosity
    \/ stMaxLatency
    \/ stWorkersFlag
    \/ stMaxServers
    \/ stUrl
    \/ stOrderBy
    \/ stOrderDirection
    \/ stStartWorkers
    \/ stArmTimers

\* ------------------------------------------------------ the comparators

\* Entries of the lists that are sorted.
MaxSortLen == 3

\* A ServerLatency, as the comparators use it: Latency, a pointer to a
\* duration, and Region.Name.
MkServerLatency(name, latency) == [Region |-> [Name |-> name], Latency |-> latency]

\* byLowerLatency.Less
byLowerLatencyLess(iserv, jserv) ==
    IF IsNil(iserv.Latency) \/ IsNil(jserv.Latency)
    THEN FALSE
    ELSE Deref(iserv.Latency) < Deref(jserv.Latency)

\* byGreaterLatency.Less
byGreaterLatencyLess(iserv, jserv) ==
    IF IsNil(iserv.Latency) \/ IsNil(jserv.Latency)
    THEN FALSE
    ELSE Deref(iserv.Latency) > Deref(jserv.Latency)

\* "*iserv.Latency > *jserv.Latency" of the name comparators is reached
\* with equal names and dereferences both pointers: a nil one is a panic.
NameTiePanics(iserv, jserv) ==
    /\ iserv.Region.Name = jserv.Region.Name
    /\ IsNil(iserv.Latency) \/ IsNil(jserv.Latency)

\* byLowerRegionName.Less, where it does not panic
byLowerRegionNameLess(iserv, jserv) ==
    IF StringLess(iserv.Region.Name, jserv.Region.Name)
    THEN TRUE
    ELSE IF iserv.Region.Name = jserv.Region.Name
         THEN Deref(iserv.Latency) > Deref(jserv.Latency)
         ELSE FALSE

\* A variant whose tie-break is the lower latency.
byGreaterRegionNameLessLower(iserv, jserv) ==
    IF StringLess(jserv.Region.Name, iserv.Region.Name)
    THEN TRUE
    ELSE IF iserv.Region.Name = jserv.Region.Name
         THEN Deref(iserv.Latency) < Deref(jserv.Latency)
         ELSE FALSE

\* byGreaterRegionName.Less, where it does not panic
byGreaterRegionNameLess(iserv, jserv) ==
    IF StringLess(jserv.Region.Name, iserv.Region.Name)
    THEN TRUE
    ELSE IF iserv.Region.Name = jserv.Region.Name
         THEN Deref(iserv.Latency) > Deref(jserv.Latency)
         ELSE FALSE

Comparators == {"byLowerLatency", "byGreaterLatency", "byLowerRegionName", "byGreaterRegionName"}

\* Whether Less of comparator c panics on the two entries.
LessPanics(c, iserv, jserv) ==
    c \in {"byLowerRegionName", "byGreaterRegionName"} /\ NameTiePanics(iserv, jserv)

\* Less of comparator c
Less(c, iserv, jserv) ==
    CASE c = "byLowerLatency"      -> byLowerLatencyLess(iserv, jserv)
      [] c = "byGreaterLatency"    -> byGreaterLatencyLess(iserv, jserv)
      [] c = "byLowerRegionName"   -> byLowerRegionNameLess(iserv, jserv)
      [] c = "byGreaterRegionName" -> byGreaterRegionNameLess(iserv, jserv)

\* Swap: "ll[i], ll[j] = ll[j], ll[i]"
Swap(ll, i, j) == [ll EXCEPT ![i] = ll[j], ![j] = ll[i]]

RECURSIVE SiftDown(_, _, _)
\* The inner loop of the insertion sort that sort.Sort runs on a short
\* slice: "for j := i; j > a && data.Less(j, j-1); j-- { data.Swap(j, j-1) }".
SiftDown(c, ll, j) ==
    IF j <= 1 THEN [list |-> ll, panicked |-> FALSE]
    ELSE IF LessPanics(c, ll[j], ll[j - 1]) THEN [list |-> ll, panicked |-> TRUE]
    ELSE IF Less(c, ll[j], ll[j - 1]) THEN SiftDown(c, Swap(ll, j, j - 1), j - 1)
    ELSE [list |-> ll, panicked |-> FALSE]

RECURSIVE InsertionSort(_, _, _)
\* Its outer loop: "for i := a + 1; i < b; i++".
InsertionSort(c, r, i) ==
    IF r.panicked \/ i > Len(r.list) THEN r
    ELSE InsertionSort(c, SiftDown(c, r.list, i), i + 1)

\* sort.Sort of the list as comparator c
Sort(c, ll) == InsertionSort(c, [list |-> ll, panicked |-> FALSE], 2)

\* The entries the lists are made of: two region names, and a latency of
\* 3, 5 or 10 ms or none.
SortEntries ==
    { MkServerLatency(n, l) : n \in {"A", "B"}, l \in {Nil, Ptr(3), Ptr(5), Ptr(10)} }

\* Nothing to sort.
SortIdle ==
    /\ sortIn = <<>>
    /\ sortOut = [c \in Comparators |-> Nil]

\* Any list of at most MaxSortLen entries.
SortInit ==
    /\ sortIn \in UNION { [1..n -> SortEntries] : n \in 0..MaxSortLen }
    /\ sortOut = [c \in Comparators |-> Nil]

\* The list is sorted as comparator c.
sortCall(c) ==
    /\ sortOut[c] = Nil
    /\ sortOut' = [sortOut EXCEPT ![c] = Ptr(Sort(c, sortIn))]
    /\ UNCHANGED <<daemonVars, oneShotVars, persistVars, startVars, extraVars, sortIn>>

SortNext == \E c \in Comparators : sortCall(c)

\* ------------------------------------------------------ the webhook's run

CodeNoError == 0

CodeNoSidecarImage == 1

\* Interrupt signals sent to the process in one behaviour.
MaxInterrupts == 3

\* The arguments of run: the flags "sidecar-image" and "debug".
AppOptionValues == [SidecarImage : {"", "pia-sidecar:1"}, DebugMode : BOOLEAN]

RunInit ==
    /\ rPc = "check"
    /\ rOpts \in AppOptionValues
    /\ rCode = CodeNoError
    /\ rLevel = "info"
    /\ rListen = "none"
    /\ rNotified = FALSE
    /\ rStop = 0
    /\ rInterrupts = 0
    /\ rReceived = FALSE
    /\ rShutdown = "none"

\* The state of the webhook in the behaviours of the other programs.
RunIdle ==
    /\ rPc = "returned"
    /\ rOpts = [SidecarImage |-> "", DebugMode |-> FALSE]
    /\ rCode = CodeNoSidecarImage
    /\ rLevel = "info"
    /\ rListen = "none"
    /\ rNotified = FALSE
    /\ rStop = 0
    /\ rInterrupts = 0
    /\ rReceived = FALSE
    /\ rShutdown = "none"

notRun == <<daemonVars, oneShotVars, persistVars, startVars, sortVars,
            heap, hReq, hOld, hPc, hI, hIps, hReg>>

\* if opts.SidecarImage == "" { return CodeNoSidecarImage }, then the level
\* of the logger.
runCheck ==
    /\ rPc = "check"
    /\ IF rOpts.SidecarImage = ""
       THEN /\ rPc' = "returned"
            /\ rCode' = CodeNoSidecarImage
            /\ rLevel' = rLevel
       ELSE /\ rPc' = "spawn"
            /\ rCode' = rCode
            /\ rLevel' = IF rOpts.DebugMode THEN "debug" ELSE rLevel
    /\ UNCHANGED <<notRun, rOpts, rListen, rNotified, rStop, rInterrupts, rReceived, rShutdown>>

\* fiber.New, app.Get and "go func() { app.Listen(":8080") }()".
runSpawn ==
    /\ rPc = "spawn"
    /\ rPc' = "notify"
    /\ rListen' = "spawned"
    /\ UNCHANGED <<notRun, rOpts, rCode, rLevel, rNotified, rStop, rInterrupts, rReceived, rShutdown>>

\* stop := make(chan os.Signal, 1); signal.Notify(stop, os.Interrupt)
runNotify ==
    /\ rPc = "notify"
    /\ rPc' = "wait"
    /\ rNotified' = TRUE
    /\ UNCHANGED <<notRun, rOpts, rCode, rLevel, rListen, rStop, rInterrupts, rReceived, rShutdown>>

StopReceivableAlways == TRUE

\* The receive "<-stop" may go on: the channel holds a signal.
StopReceivable == rStop > 0

\* <-stop
runWait ==
    /\ rPc = "wait"
    /\ StopReceivable
    /\ rStop' = rStop - 1
    /\ rReceived' = TRUE
    /\ rPc' = "shutdown"
    /\ UNCHANGED <<notRun, rOpts, rCode, rLevel, rListen, rNotified, rInterrupts, rShutdown>>

\* app.Shutdown(): its error is logged; a listening server is closed, which
\* makes app.Listen return.  Then return CodeNoError.
runShutdown ==
    /\ rPc = "shutdown"
    /\ \E err \in {"nil", "error"} : rShutdown' = err
    /\ rListen' = IF rListen = "listening" THEN "closed" ELSE rListen
    /\ rPc' = "returned"
    /\ rCode' = CodeNoError
    /\ UNCHANGED <<notRun, rOpts, rLevel, rNotified, rStop, rInterrupts, rReceived>>

run == runCheck \/ runSpawn \/ runNotify \/ runWait \/ runShutdown

\* The goroutine of app.Listen(":8080"), while the process runs: the server
\* listens, or Listen returns an error, which is logged.
listenStep ==
    /\ rPc \in {"notify", "wait", "shutdown"}
    /\ rListen = "spawned"
    /\ rListen' \in {"listening", "failed"}
    /\ UNCHANGED <<notRun, rPc, rOpts, rCode, rLevel, rNotified, rStop, rInterrupts, rReceived, rShutdown>>

\* The process is sent an interrupt: before signal.Notify it ends the
\* process; after it the signal goes to stop, and is dropped when stop is
\* full.
interrupt ==
    /\ rPc \notin {"returned", "killed"}
    /\ rInterrupts < MaxInterrupts
    /\ rInterrupts' = rInterrupts + 1
    /\ IF rNotified
       THEN /\ rStop' = IF rStop < 1 THEN rStop + 1 ELSE rStop
            /\ rPc' = rPc
       ELSE /\ rStop' = rStop
            /\ rPc' = "killed"
    /\ UNCHANGED <<notRun, rOpts, rCode, rLevel, rListen, rNotified, rReceived, rShutdown>>

RunNext == run \/ listenStep \/ interrupt

\* ------------------------------------------- a worker and the heap

\* An object of the heap: a Region (ID, Servers: the address of its
\* ServersList or 0), a ServersList (WireGuard: addresses of Servers), or a
\* Server (IP, Latency).
Obj(kind, id, servers, wireGuard, ip, latency) ==
    [kind |-> kind, ID |-> id, Servers |-> servers, WireGuard |-> wireGuard,
     IP |-> ip, Latency |-> latency]

\* The heaps a worker may find when it receives the Region at address 1:
\* a Region with four WireGuard servers, with two, with one, with none, and
\* a Region without a ServersList.
RequestHeaps ==
    { << Obj("region", "a", 2, <<>>, "", Nil),
         Obj("list", "", 0, <<3, 4, 5, 6>>, "", Nil),
         Obj("server", "", 0, <<>>, "10.0.0.1", Nil),
         Obj("server", "", 0, <<>>, "10.0.0.2", Ptr(1)),
         Obj("server", "", 0, <<>>, "10.0.0.4", Nil),
         Obj("server", "", 0, <<>>, "10.0.0.5", Nil) >>,
      << Obj("region", "c", 2, <<>>, "", Nil),
         Obj("list", "", 0, <<3, 4>>, "", Nil),
         Obj("server", "", 0, <<>>, "10.0.0.6", Nil),
         Obj("server", "", 0, <<>>, "10.0.0.7", Ptr(1)) >>,
      << Obj("region", "b", 2, <<>>, "", Nil),
         Obj("list", "", 0, <<3>>, "", Nil),
         Obj("server", "", 0, <<>>, "10.0.0.3", Nil) >>,
      << Obj("region", "e", 2, <<>>, "", Nil),
         Obj("list", "", 0, <<>>, "", Nil) >>,
      << Obj("region", "n", 0, <<>>, "", Nil) >> }

CloneInit ==
    /\ heap \in RequestHeaps
    /\ hReq = 1
    /\ hOld = heap
    /\ hPc = "probe"
    /\ hI = 1
    /\ hIps = <<>>
    /\ hReg = 0

\* The state of this worker in the behaviours of the other programs.
CloneIdle ==
    /\ heap = <<>>
    /\ hReq = 0
    /\ hOld = <<>>
    /\ hPc = "skipped"
    /\ hI = 1
    /\ hIps = <<>>
    /\ hReg = 0

\* A Clone that shares the ServersList of r.
RegionCloneShared(h, r) == Append(h, Obj("region", h[r].ID, h[r].Servers, <<>>, "", Nil))

\* Region.Clone on the Region at address r: the heap with a new Region, at
\* address Len(h) + 1, a new ServersList and a new Server, made by
\* Server.Clone, for every WireGuard server of r.
RegionClone(h, r) ==
    LET list == h[h[r].Servers].WireGuard
        n  == Len(h)
    IN h \o << Obj("region", h[r].ID, n + 2, <<>>, "", Nil),
                Obj("list", "", 0, [k \in 1..Len(list) |-> n + 2 + k], "", Nil) >>
         \o [k \in 1..Len(list) |->
                Obj("server", "", 0, <<>>, h[list[k]].IP,
                    IF IsNil(h[list[k]].Latency) THEN Nil ELSE Ptr(Deref(h[list[k]].Latency)))]

\* The two "continue" for a Region without servers, then one iteration of
\* the probe loop: a failed dial leaves ips alone, a success appends the
\* address of a new Server to ips.
hProbe ==
    /\ hPc = "probe"
    /\ LET reg == heap[hReq] IN
       IF reg.Servers = 0 \/ Len(heap[reg.Servers].WireGuard) = 0
       THEN /\ hPc' = "skipped"
            /\ UNCHANGED <<heap, hI, hIps>>
       ELSE IF hI > Len(heap[reg.Servers].WireGuard)
       THEN /\ hPc' = "clone"
            /\ UNCHANGED <<heap, hI, hIps>>
       ELSE \E o \in ProbeOutcomes :
               LET serv == heap[heap[reg.Servers].WireGuard[hI]] IN
               /\ hI' = hI + 1
               /\ hPc' = hPc
               /\ IF ProbeFailed(o)
                  THEN UNCHANGED <<heap, hIps>>
                  ELSE /\ heap' = Append(heap, Obj("server", "", 0, <<>>, serv.IP, Ptr(o.elapsed)))
                       /\ hIps' = Append(hIps, Len(heap) + 1)
    /\ UNCHANGED <<daemonVars, oneShotVars, persistVars, startVars, sortVars,
                   rPc, rOpts, rCode, rLevel, rListen, rNotified, rStop, rInterrupts,
                   rReceived, rShutdown, hReq, hOld, hReg>>

\* reg := reg.Clone()
hClone ==
    /\ hPc = "clone"
    /\ heap' = RegionClone(heap, hReq)
    /\ hReg' = Len(heap) + 1
    /\ hPc' = "assign"
    /\ UNCHANGED <<daemonVars, oneShotVars, persistVars, startVars, sortVars,
                   rPc, rOpts, rCode, rLevel, rListen, rNotified, rStop, rInterrupts,
                   rReceived, rShutdown, hReq, hOld, hI, hIps>>

\* reg.Servers.WireGuard = ips; latenciesResult <- reg
hAssign ==
    /\ hPc = "assign"
    /\ heap' = [heap EXCEPT ![heap[hReg].Servers].WireGuard = hIps]
    /\ hPc' = "sent"
    /\ UNCHANGED <<daemonVars, oneShotVars, persistVars, startVars, sortVars,
                   rPc, rOpts, rCode, rLevel, rListen, rNotified, rStop, rInterrupts,
                   rReceived, rShutdown, hReq, hOld, hI, hIps, hReg>>

CloneNext == hProbe \/ hClone \/ hAssign

\* ------------------------------------------------------- specifications

vars == <<daemonVars, oneShotVars, auxVars>>

\* The daemon.
Init == DaemonInit /\ OneShotInit /\ PersistIdle /\ StartIdle /\ SortIdle /\ RunIdle /\ CloneIdle

Next == DaemonNext

Spec == Init /\ [][Next]_vars

\* The daemon with its goroutines scheduled fairly: a goroutine that can
\* take a step eventually takes one.  Timers and signals are not forced.
LiveSpec == Spec /\ WF_vars(program)

\* The daemon with every goroutine scheduled fairly, a select that does not
\* pass over a case that stays ready (Go chooses among the ready cases at
\* random), and a clock that runs: a timer that is armed expires, and the
\* ticker ticks.  Signals are not forced.
LiveSpecTimers ==
    /\ Spec
    /\ WF_vars(caseUpdateTicker)
    /\ WF_vars(caseFirstTime)
    /\ WF_vars(caseConfWriterTimer)
    /\ WF_vars(caseResChan)
    /\ WF_vars(caseStop)
    /\ WF_vars(mainCloseRes \/ mainCloseReq \/ mainCanc \/ mainWait)
    /\ \A w \in Workers : WF_vars(work(w))
    /\ \A t \in 1..2 : WF_vars(t \in FetchTasks /\ fetchTask(t))
    /\ \A t \in 1..2 : WF_vars(t \in PersistTasks /\ persistTask(t))
    /\ WF_vars(fireConfWriterTimer)
    /\ WF_vars(fireFirstTime)
    /\ WF_vars(tickUpdateTicker)

\* The one-shot variant.
SpecOneShot == Init /\ [][OneShotNext]_vars

\* The one-shot variant with a fair scheduler: main and every worker
\* goroutine take a step whenever they stay able to.
LiveSpecOneShot ==
    /\ SpecOneShot
    /\ WF_vars(osGetList \/ osDispatch \/ osCollect)
    /\ \A w \in Workers : WF_vars(osWorker(w))

\* updateConfigMap against a cluster that other clients use too.
InitPersist == DaemonInit /\ OneShotInit /\ PersistInit /\ StartIdle /\ SortIdle /\ RunIdle /\ CloneIdle

SpecPersist == InitPersist /\ [][PersistNext]_vars

\* main from its first check to the event loop, for any flags.
InitStart == DaemonInit /\ OneShotInit /\ PersistIdle /\ StartInit /\ SortIdle /\ RunIdle /\ CloneIdle

SpecStart == InitStart /\ [][StartNext]_vars

\* Lists sorted as each of the four comparators.
InitSort == DaemonInit /\ OneShotInit /\ PersistIdle /\ StartIdle /\ SortInit /\ RunIdle /\ CloneIdle

SpecSort == InitSort /\ [][SortNext]_vars

\* The webhook's run, with the interrupts the process is sent.
InitRun == DaemonInit /\ OneShotInit /\ PersistIdle /\ StartIdle /\ SortIdle /\ RunInit /\ CloneIdle

SpecRun == InitRun /\ [][RunNext]_vars

\* One worker processing one Region, on a heap.
InitClone ==
    DaemonInit /\ OneShotInit /\ PersistIdle /\ StartIdle /\ SortIdle /\ RunIdle /\ CloneInit

SpecClone == InitClone /\ [][CloneNext]_vars


\* ------------------------------------------------------------- properties

\* C1: after the request and result queues are closed, no worker sends on
\* the result queue and no fetch task sends on the request queue.  A send on
\* a closed channel is the step that sets panic, so the claim is that no
\* such step is reachable.
C1_NoSendOnClosedQueue == panic \notin {"resChan", "reqChan"}

\* C2: once the loop has received the shutdown signal, the process
\* eventually terminates normally: main gets past wg.Wait() and returns.
\* Checked under LiveSpec, where every goroutine that can run does run.
C2_ShutdownTerminates == (mainpc # "loop") ~> (mainpc = "exited")

\* C3: while the loop runs, each tick it receives from firstTime and from
\* updateTicker starts one catalog fetch task.
C3_EveryTickStartsFetch ==
    [][ ( /\ mainpc = "loop"
          /\ \/ updateTicker.C /\ ~updateTicker'.C
             \/ firstTime = "fired" /\ firstTime' = "drained" )
        => Len(fetchTasks') = Len(fetchTasks) + 1 ]_vars

\* C4: while the loop runs, persistence ticks recur.  A later persistence
\* tick can fire only if the current confWriterTimer is still to fire or to
\* be received, or firstTime, whose case arms a new one, is: after a
\* persistence tick was handled one of these must hold.
C4_PersistTickRecurs ==
    (mainpc = "loop" /\ Len(persistTasks) > 0)
        => \/ confWriterTimer \in {"armed", "fired"}
           \/ firstTime \in {"armed", "fired"}

\* C5: for every region a worker received and is done with, the worker sent
\* exactly one message on the result queue (one-shot variant).
C5_ExactlyOneMessage == \A id \in osProcessed : osSent[id] = 1

\* C6: in the one-shot variant, when the collection loop has stopped on
\* responses == len(regions), every dispatched region was processed by a
\* worker, and every region with a server that answered is in the results.
C6_CountCompletion ==
    osPc = "done" =>
        \A k \in 1..Len(osRegions) :
            LET id == Deref(osRegions[k]).ID IN
            /\ id \in osProcessed
            /\ id \in osReached => \E j \in 1..Len(results) : Deref(results[j]).ID = id

\* C7: the snapshot holds no nil marker and no region whose WireGuard list
\* is empty.
C7_SnapshotFiltered ==
    \A k \in 1..Len(latResults) :
        /\ ~IsNil(latResults[k])
        /\ WgLen(Deref(latResults[k])) > 0

\* C7 witness: of the catalog <<b, a>> both regions were probed and both
\* results received (nothing is queued, every worker waits for a region),
\* and only "a" is in the snapshot: the result for "b" arrived with an empty
\* server list and was dropped.
C7_Witness ==
    /\ Len(fetchTasks) = 1
    /\ fetchTasks[1].pc = "done"
    /\ fetchTasks[1].regions = <<Ptr(RegB), Ptr(RegA)>>
    /\ reqChan = <<>>
    /\ resChan = <<>>
    /\ \A w \in Workers : workers[w].pc = "recv"
    /\ Len(latResults) = 1
    /\ Deref(latResults[1]).ID = "a"

\* C8: the region a worker emits lists exactly the servers of the request
\* whose probe succeeded: each entry has the IP, CN and VAN of a request
\* server whose dial succeeded and carries the measured latency; the entries
\* are in the request's order; a server whose dial failed is absent.
C8_EmittedServers ==
    \A w \in Workers :
        workers[w].pc = "send" =>
            LET req    == Deref(Deref(workers[w].reg).Servers).WireGuard
                probed == workers[w].probed
                out    == Deref(Deref(workers[w].out).Servers).WireGuard
                Match(j, k) == /\ out[j].IP = req[k].IP
                               /\ out[j].CN = req[k].CN
                               /\ out[j].VAN = req[k].VAN
            IN /\ Len(probed) = Len(req)
               /\ \A j \in 1..Len(out) :
                    /\ ~IsNil(out[j].Latency)
                    /\ \E k \in 1..Len(req) :
                         /\ Match(j, k)
                         /\ probed[k].err = "none"
                         /\ Deref(out[j].Latency) = probed[k].elapsed
               /\ \A j1, j2 \in 1..Len(out) : \A k1, k2 \in 1..Len(req) :
                    (j1 < j2 /\ Match(j1, k1) /\ Match(j2, k2)) => k1 < k2
               /\ \A k \in 1..Len(req) :
                    IF probed[k].err = "none"
                    THEN \E j \in 1..Len(out) : Match(j, k)
                    ELSE \A j \in 1..Len(out) : ~Match(j, k)

\* C8 witness: a worker is about to emit region "a" after the dial to its
\* first server failed and the dial to its second server succeeded.
C8_Witness ==
    \E w \in Workers :
        /\ workers[w].pc = "send"
        /\ Deref(workers[w].reg).ID = "a"
        /\ workers[w].probed[1].err = "timeout"
        /\ workers[w].probed[2].err = "none"
        /\ Len(Deref(Deref(workers[w].out).Servers).WireGuard) = 1

\* C10: the snapshot handed to the persister is ordered by the comparator
\* of the configured (sort key, direction) pair.  With the configured pair
\* (name, asc) the comparator is byLowerRegionName, and in a list ordered by
\* it no entry is followed by an entry with a smaller region name.
C10_PersistedOrdered ==
    (OrderBy = "name" /\ OrderDirection = "asc") =>
        \A t \in PersistTasks :
            persistTasks[t].pc = "writing" =>
                LET handed == persistTasks[t].regions IN
                \A i, j \in 1..Len(handed) :
                    i < j => ~StringLess(Deref(handed[j]).Name, Deref(handed[i]).Name)

\* C11: updateConfigMap issues a Create when Get reported not-found and an
\* Update otherwise.  After a successful Update the stored object holds the
\* serialized snapshot under "regions" and a time read by this invocation
\* under "last-update", and every other payload key and every other
\* annotation is as it was in the stored object before; a created object
\* holds these two entries.
C11_CreateOrUpdateFrame ==
    [][ (pWrites' = pWrites + 1) =>
          /\ pKind' = (IF pGot = "notfound" THEN "create" ELSE "update")
          /\ (pErr' = "nil") =>
                LET after == Deref(cmStored') IN
                /\ Deref(after.BinaryData)["regions"] = Ptr(Marshal(pRegions))
                /\ \E t \in pStart..now :
                       Deref(after.Annotations)["last-update"] = Ptr(TimeString(t))
                /\ \A k \in PayloadKeys \ {"regions"} :
                       Deref(after.BinaryData)[k] =
                           (IF pKind' = "update" THEN Deref(Deref(cmStored).BinaryData)[k]
                                                 ELSE Nil)
                /\ \A k \in AnnotationKeys \ {"last-update"} :
                       Deref(after.Annotations)[k] =
                           (IF pKind' = "update" THEN Deref(Deref(cmStored).Annotations)[k]
                                                 ELSE Nil)
      ]_vars

\* C11 witness: an Update succeeded on an object that holds a payload key
\* and an annotation of another client next to the two of the program.
C11_Witness ==
    /\ pPc = "returned"
    /\ pKind = "update"
    /\ pErr = "nil"
    /\ pRegions # <<>>
    /\ Deref(Deref(cmStored).BinaryData)["regions"] = Ptr(Marshal(pRegions))
    /\ Deref(Deref(cmStored).BinaryData)["other"] = Ptr(ForeignPayload)
    /\ Deref(Deref(cmStored).Annotations)["owner"] = Ptr(ForeignAnnotation)
    /\ Deref(Deref(cmStored).Annotations)["last-update"] # Nil

\* C12: an invocation issues at most one write request.  When Get fails
\* with an error other than not-found the invocation returns that error and
\* has issued no write; when the write fails the invocation returns the
\* error of the write and asks nothing more.
C12_AtMostOneWrite ==
    /\ pWrites <= 1
    /\ pGot = "error" => (pPc = "returned" /\ pErr = "other" /\ pWrites = 0)
    /\ pWrites = 1 => pPc = "returned"
    /\ pPc \in {"get", "set", "write", "panicked"} => pWrites = 0

\* C12 witness: an Update was refused with a conflict and the invocation has
\* returned that error.
C12_Witness ==
    /\ pPc = "returned"
    /\ pKind = "update"
    /\ pErr = "conflict"
    /\ pWrites = 1

\* C13: when two successful writes in a row were given the same snapshot,
\* the payload stored under "regions" by the second is the payload stored
\* by the first.
C13_SamePayload ==
    (Len(pHist) = 2 /\ pHist[1].regs = pHist[2].regs) =>
        pHist[1].payload = pHist[2].payload

\* C13 witness: the same snapshot, not empty, was written twice, at
\* different times.
C13_Witness ==
    /\ Len(pHist) = 2
    /\ pHist[1].regs = pHist[2].regs
    /\ pHist[1].regs # <<>>
    /\ pHist[1].stamp # pHist[2].stamp
    /\ ~IsNil(cmStored)
    /\ Deref(Deref(cmStored).BinaryData)["regions"] = pHist[2].payload

\* C14: a catalog fetch that fails and a persistence write that fails are
\* logged and nothing else: the step in which the goroutine takes the error
\* leaves the event loop where it is, the process alive and the timers, the
\* queues and the snapshot as they are; and with such a failure behind it
\* the running loop still takes every case whose channel is ready.
C14_FailureStep ==
    \/ \E t \in FetchTasks :
          fetchTasks[t].pc = "fetching" /\ fetchTasks'[t].pc = "done"
    \/ \E t \in PersistTasks :
          persistTasks[t].pc = "writing" /\ persistTasks'[t].err = "error"

C14_FailureSeen ==
    \/ \E t \in FetchTasks : fetchTasks[t].pc = "done" /\ fetchTasks[t].regions = <<>>
    \/ \E t \in PersistTasks : persistTasks[t].err = "error"

C15_FetchEnqueues ==
    /\ \A t \in FetchTasks :
          LET me == fetchTasks[t] IN
          /\ Len(me.sent) <= Len(me.regions)
          /\ me.sent = SubSeq(me.regions, 1, Len(me.sent))
          /\ (me.pc = "done" /\ me.regions # <<>>) => me.sent = me.regions
    /\ (\A t \in FetchTasks : fetchTasks[t].regions = <<>>) =>
          (reqChan = <<>> /\ resChan = <<>> /\ latResults = <<>>)

\* C15 witness: a fetch task is done after it put the three regions of a
\* catalog on the request queue.
C15_Witness ==
    \E t \in FetchTasks :
        /\ fetchTasks[t].pc = "done"
        /\ Len(fetchTasks[t].regions) = 3
        /\ fetchTasks[t].sent = fetchTasks[t].regions

\* C16: once the context is cancelled at shutdown, no worker takes another
\* region from the request queue and no worker dials another server.
C16_NoWorkAfterCancel ==
    [][ cancelled =>
          /\ reqChan' = reqChan
          /\ \A w \in Workers : Len(workers'[w].probed) <= Len(workers[w].probed) ]_vars

\* C17: the snapshot is accessed without a race: no persistence goroutine
\* has its read of the variable latResults still to do while the event loop
\* is able to append to it.  The read of persistCall and the append of
\* caseResChan are ordered by nothing but the scheduler.
C17_NoSnapshotRace ==
    \A t \in PersistTasks :
        persistTasks[t].pc = "start" =>
            ~ ( /\ mainpc = "loop"
                /\ resChan # <<>>
                /\ Aggregate(latResults, Head(resChan)) # latResults )

\* C18: with an unknown order-by, an unknown order-direction or a zero max
\* latency the process does not get past the validations of main: it is at
\* a check or has exited, no worker goroutine is started and no timer is
\* armed, so the event loop, which alone fetches and writes, never runs; and
\* it has exited once the check of the last option is behind it.
C18_InvalidConfig ==
    \/ InvalidOrderBy(stOpts.OrderBy)
    \/ InvalidOrderDirection(stOpts.OrderDirection)
    \/ stOpts.MaxLatency = 0

C18_InvalidConfigIsFatal ==
    C18_InvalidConfig =>
        /\ stPc \in {"namespace", "clientset", "verbosity", "maxLatency", "workers",
                     "maxServers", "url", "orderBy", "orderDirection", "exited"}
        /\ stStarted = 0
        /\ ~stTimers
        /\ stOpts.MaxLatency = 0 =>
              stPc \in {"namespace", "clientset", "verbosity", "maxLatency", "exited"}
        /\ InvalidOrderBy(stOpts.OrderBy) =>
              stPc \notin {"orderDirection"}

\* C18 witness: the process has exited, and the unknown order-by is the
\* only thing wrong with its flags and environment.
C18_Witness ==
    /\ stPc = "exited"
    /\ stOpts.OrderBy = "bogus"
    /\ ~InvalidOrderDirection(stOpts.OrderDirection)
    /\ stOpts.MaxLatency # 0
    /\ ~InvalidVerbosity(stOpts.Verbosity)
    /\ ~UrlParseFails(stOpts.ServersListURL)
    /\ stNamespace # ""
    /\ ~stClientErr

\* C19: for a list whose entries all have a latency, the list sorted by
\* ascending latency and the list sorted by descending latency are exact
\* reverses of each other.
C19_AscDescReverse ==
    ( /\ \A k \in 1..Len(sortIn) : ~IsNil(sortIn[k].Latency)
      /\ ~IsNil(sortOut["byLowerLatency"])
      /\ ~IsNil(sortOut["byGreaterLatency"]) ) =>
        LET asc  == Deref(sortOut["byLowerLatency"]).list
            desc == Deref(sortOut["byGreaterLatency"]).list
        IN \A k \in 1..Len(sortIn) : asc[k] = desc[Len(sortIn) + 1 - k]

\* C20: in a list sorted as byLowerRegionName or as byGreaterRegionName, of
\* two entries with equal region names the one with the greater latency
\* comes first; and [B 5ms, A 10ms, A 3ms] sorted as byLowerRegionName is
\* [A 10ms, A 3ms, B 5ms].
C20_NameTieBreak ==
    /\ \A c \in {"byLowerRegionName", "byGreaterRegionName"} :
          (~IsNil(sortOut[c]) /\ ~Deref(sortOut[c]).panicked) =>
              LET out == Deref(sortOut[c]).list IN
              \A i, j \in 1..Len(out) :
                  (i < j /\ out[i].Region.Name = out[j].Region.Name) =>
                      /\ ~IsNil(out[i].Latency)
                      /\ ~IsNil(out[j].Latency)
                      /\ Deref(out[i].Latency) >= Deref(out[j].Latency)
    /\ ( /\ sortIn = << MkServerLatency("B", Ptr(5)), MkServerLatency("A", Ptr(10)),
                        MkServerLatency("A", Ptr(3)) >>
         /\ ~IsNil(sortOut["byLowerRegionName"]) ) =>
          Deref(sortOut["byLowerRegionName"]) =
              [list |-> << MkServerLatency("A", Ptr(10)), MkServerLatency("A", Ptr(3)),
                           MkServerLatency("B", Ptr(5)) >>,
               panicked |-> FALSE]

\* C20 witness: [B 5ms, A 10ms, A 3ms] has been sorted as both name
\* comparators, and the two entries of A are in the same order in both.
C20_Witness ==
    /\ sortIn = << MkServerLatency("B", Ptr(5)), MkServerLatency("A", Ptr(10)),
                   MkServerLatency("A", Ptr(3)) >>
    /\ ~IsNil(sortOut["byLowerRegionName"])
    /\ ~IsNil(sortOut["byGreaterRegionName"])
    /\ Deref(sortOut["byGreaterRegionName"]).list =
          << MkServerLatency("B", Ptr(5)), MkServerLatency("A", Ptr(10)),
             MkServerLatency("A", Ptr(3)) >>
    /\ Deref(sortOut["byLowerRegionName"]).list[1] = MkServerLatency("A", Ptr(10))

\* C21: each of the four comparators is a strict ordering of the entries of
\* a list it sorts, entries without latency included: Less is irreflexive,
\* asymmetric and transitive, and being ordered in neither direction is
\* transitive.  A call of Less that panics is counted as "not less" here.
C21_StrictOrdering ==
    \A c \in Comparators :
        ~IsNil(sortOut[c]) =>
            \A i, j, k \in 1..Len(sortIn) :
                LET Lt(a, b)  == ~LessPanics(c, a, b) /\ Less(c, a, b)
                    Inc(a, b) == ~Lt(a, b) /\ ~Lt(b, a)
                    x == sortIn[i]
                    y == sortIn[j]
                    z == sortIn[k]
                IN /\ ~Lt(x, x)
                   /\ Lt(x, y) => ~Lt(y, x)
                   /\ (Lt(x, y) /\ Lt(y, z)) => Lt(x, z)
                   /\ (Inc(x, y) /\ Inc(y, z)) => Inc(x, z)

\* C22: when the latency of either entry is absent a comparison does not
\* fail and does not rank the entry without latency first: sorting a list
\* never panics, and the latency comparators answer false in both
\* directions for such a pair.
C22_AbsentLatencySafe ==
    /\ \A c \in Comparators :
          ~IsNil(sortOut[c]) => ~Deref(sortOut[c]).panicked
    /\ \A c \in {"byLowerLatency", "byGreaterLatency"} :
          ~IsNil(sortOut[c]) =>
              \A i, j \in 1..Len(sortIn) :
                  (IsNil(sortIn[i].Latency) \/ IsNil(sortIn[j].Latency)) =>
                      (~Less(c, sortIn[i], sortIn[j]) /\ ~Less(c, sortIn[j], sortIn[i]))

\* C29: updateConfigMap on an existing object whose BinaryData or whose
\* Annotations is nil ends by returning nil or an error: it does not crash
\* in the assignment of the "regions" payload or of the "last-update"
\* annotation.
C29_NoCrashOnNilMap == pPc # "panicked"

\* C25: with the workers option 0 the pool runs with the default number of
\* workers, as the message of the check says: when main enters the event
\* loop, defaultWorkersNumber worker goroutines are started, and in every
\* case at least one.
C25_DefaultWorkers ==
    stPc = "loop" =>
        /\ stStarted >= 1
        /\ stOpts.Workers = 0 => stStarted = defaultWorkersNumber

\* C24: with a max-regions option that is not zero the snapshot never holds
\* more than max-regions regions, and neither does the list handed to a
\* persistence write.
C24_SnapshotBounded ==
    MaxServers # 0 =>
        /\ Len(latResults) <= MaxServers
        /\ \A t \in PersistTasks : Len(persistTasks[t].regions) <= MaxServers

\* C27: no persistence write is started before the first catalog fetch has
\* been triggered: whenever a persist goroutine exists, a fetch goroutine
\* exists.
C27_NoWriteBeforeFetch == Len(persistTasks) > 0 => Len(fetchTasks) > 0

\* C28: a region that is in the snapshot is eventually in the list handed
\* to a persistence write, unless a termination signal arrives, the loop is
\* left or a write fails.
C28_InSnapshot(id) == \E k \in 1..Len(latResults) : Deref(latResults[k]).ID = id

C28_HandedToWrite(id) ==
    \E t \in PersistTasks :
        /\ persistTasks[t].pc = "writing"
        /\ \E k \in 1..Len(persistTasks[t].regions) :
              Deref(persistTasks[t].regions[k]).ID = id

C28_Excused ==
    \/ stop
    \/ mainpc # "loop"
    \/ \E t \in PersistTasks : persistTasks[t].err = "error"

C28_EventuallyPersisted ==
    /\ C28_InSnapshot("a") ~> (C28_HandedToWrite("a") \/ C28_Excused)
    /\ C28_InSnapshot("b") ~> (C28_HandedToWrite("b") \/ C28_Excused)


\* C26: in the one-shot variant, for any number of fetched regions and at
\* least one worker, the dispatch of the regions and the collection of the
\* responses terminate: main reaches its end.
C26_DispatchCollectTerminates == (osPc \in {"dispatch", "collect"}) ~> (osPc = "done")

\* C30: run returns CodeNoSidecarImage, and never starts the server, when
\* the sidecar image is empty; with an image it starts the goroutine of
\* the server and returns only CodeNoError, and only after an interrupt
\* was received from stop and app.Shutdown was called, whatever app.Listen
\* and app.Shutdown answered.
C30_RunContract ==
    /\ rOpts.SidecarImage = "" =>
          /\ rListen = "none"
          /\ rShutdown = "none"
          /\ rPc = "returned" => rCode = CodeNoSidecarImage
    /\ (rOpts.SidecarImage # "" /\ rPc = "returned") =>
          /\ rCode = CodeNoError
          /\ rListen # "none"
          /\ rInterrupts >= 1
          /\ rReceived
          /\ rShutdown # "none"

\* run returned CodeNoError although app.Listen had failed.
C30_Witness ==
    /\ rPc = "returned"
    /\ rCode = CodeNoError
    /\ rListen = "failed"
    /\ rShutdown = "error"

\* C23: a worker never changes the Region it received, nor anything
\* reachable from it: every object that existed when the Region was
\* received stays as it was; and the Region it sends, its ServersList and
\* its Servers are objects allocated after the receipt, with the ID of the
\* request.
C23_RequestUntouched ==
    /\ \A a \in 1..Len(hOld) : heap[a] = hOld[a]
    /\ hPc = "sent" =>
          /\ hReg > Len(hOld)
          /\ heap[hReg].ID = hOld[hReq].ID
          /\ heap[hReg].Servers > Len(hOld)
          /\ \A k \in 1..Len(heap[heap[hReg].Servers].WireGuard) :
                heap[heap[hReg].Servers].WireGuard[k] > Len(hOld)

\* A result with two reachable servers was sent for a request with four.
C23_Witness ==
    /\ hPc = "sent"
    /\ Len(hOld[hOld[hReq].Servers].WireGuard) = 4
    /\ Len(heap[heap[hReg].Servers].WireGuard) = 2

=========================================================================
